---- MODULE Spec2Model ----
(***************************************************************************)
(* Model of static/script.js: the upload form's submit handler, the two    *)
(* suspensions of one submission cycle (await fetch, await res.json()),    *)
(* the rendering of the parsed response into the page, and renderRecipe.   *)
(*                                                                         *)
(* Markup text is a sequence of string pieces; concatenating texts is      *)
(* concatenating the sequences, so that a template literal is the          *)
(* sequence of its literal chunks and its interpolated values, in order.   *)
(***************************************************************************)
EXTENDS Integers, Sequences, FiniteSets, TLC

\* ------------------------------------------------------------------ bounds

\* The number of submissions with a file that one behaviour makes.
MaxSubmits == 2

\* The same, in the behaviours checked for progress under fairness.
MaxFairSubmits == 1

Cycles == 1..MaxSubmits

\* ------------------------------------------------------------- input values

\* Files the user can pick in the file input.
Files == {"photo.jpg", "fridge.png"}

Pancakes ==
    [title |-> "Pancakes", short_description |-> "Fluffy.",
     ingredients_used |-> <<"egg", "flour">>, steps |-> <<"Mix", "Cook">>]

Omelette ==
    [title |-> "Omelette", short_description |-> "Quick.",
     ingredients_used |-> <<"<b>egg</b>">>, steps |-> <<"Beat", "Fry", "Serve">>]

\* Parsed response objects that carry both fields, as lists.
WellFormedData ==
    { [ingredients |-> <<"egg", "flour">>, recipes |-> <<>>],
      [ingredients |-> <<>>, recipes |-> <<Pancakes>>],
      [ingredients |-> <<>>, recipes |-> <<>>],
      [ingredients |-> <<"flour", "<b>egg</b>">>, recipes |-> <<Omelette, Pancakes>>] }

\* Parsed response objects that lack one of the two fields.
MalformedData ==
    { [ingredients |-> <<"egg">>],
      [recipes |-> <<Pancakes>>] }

\* What a resolved fetch can deliver: a body that parses as JSON to some
\* object, or a body that does not parse.
Bodies ==
    { [parses |-> TRUE, data |-> d] : d \in WellFormedData \cup MalformedData }
    \cup { [parses |-> FALSE, data |-> [raw |-> "<html>Bad Gateway</html>"]] }

\* ------------------------------------------------------------ pure helpers

\* Array.prototype.join(""): the texts of a list, concatenated in order.
RECURSIVE join(_)
join(texts) ==
    IF texts = <<>> THEN <<>> ELSE Head(texts) \o join(Tail(texts))

\* The badge of one ingredient: the value is interpolated as it is.
pill(i) == <<"<span class=\"pill\">", i, "</span>">>

li(i) == <<"<li>", i, "</li>">>

\* The two lists of a card interchanged.
renderRecipeListsSwapped(recipe) ==
    <<"\n    <div class=\"recipe-card\">\n      <h3>", recipe.title,
      "</h3>\n      <p>", recipe.short_description,
      "</p>\n      <h4>Ingredients used</h4>\n      <ul>\n        ">>
    \o join([k \in 1..Len(recipe.steps) |-> li(recipe.steps[k])])
    \o <<"\n      </ul>\n      <h4>Steps</h4>\n      <ol>\n        ">>
    \o join([k \in 1..Len(recipe.ingredients_used) |-> li(recipe.ingredients_used[k])])
    \o <<"\n      </ol>\n    </div>\n  ">>

\* Lines 47-62: the template literal, chunk by chunk.
renderRecipe(recipe) ==
    <<"\n    <div class=\"recipe-card\">\n      <h3>", recipe.title,
      "</h3>\n      <p>", recipe.short_description,
      "</p>\n      <h4>Ingredients used</h4>\n      <ul>\n        ">>
    \o join([k \in 1..Len(recipe.ingredients_used) |-> li(recipe.ingredients_used[k])])
    \o <<"\n      </ul>\n      <h4>Steps</h4>\n      <ol>\n        ">>
    \o join([k \in 1..Len(recipe.steps) |-> li(recipe.steps[k])])
    \o <<"\n      </ol>\n    </div>\n  ">>

\* join() called without its argument: the badges come out comma-separated.
ingredientsHTMLCommas(ingredients) ==
    IF ingredients = <<>> THEN <<>>
    ELSE pill(Head(ingredients))
         \o join([k \in 1..(Len(ingredients) - 1) |-> <<",">> \o pill(ingredients[k + 1])])

\* ingredients.map(i => `<span class="pill">${i}</span>`).join("")
ingredientsHTML(ingredients) ==
    join([k \in 1..Len(ingredients) |-> pill(ingredients[k])])

\* recipes.map(renderRecipe).join("")
recipesHTML(recipes) ==
    join([k \in 1..Len(recipes) |-> renderRecipe(recipes[k])])

\* A slip in the field name the server reads the upload from.
formDataUnderFile(file) == <<[name |-> "file", value |-> file]>>

\* FormData with the file appended under the field name "image".
formData(file) == <<[name |-> "image", value |-> file]>>

\* fetch("/analyze", {method: "POST", body}): one more request on the wire.
fetch(sent, body) ==
    Append(sent, [url |-> "/analyze", method |-> "POST", body |-> body])

\* --------------------------------------------------------------- the state

VARIABLES
    imageInput,          \* imageInput.files
    statusDiv,           \* statusDiv.textContent
    ingredientsSection,  \* ingredientsSection.classList
    ingredientsList,     \* ingredientsList.innerHTML
    recipesSection,      \* recipesSection.classList
    recipesList,         \* recipesList.innerHTML
    requests,            \* the requests issued so far, in order
    pc,                  \* per cycle: where its handler invocation stands
    res,                 \* per cycle: <<>> or <<the body its fetch resolved with>>
    lastEvent,           \* history: the event handled last
    overlaps,            \* history: per cycle, the cycles outstanding at its submit
    before,              \* history: per cycle, the list contents when its submit arrived
    after                \* history: per cycle, the page when its handler ended

vars == <<imageInput, statusDiv, ingredientsSection, ingredientsList,
          recipesSection, recipesList, requests, pc, res,
          lastEvent, overlaps, before, after>>

\* The page as the user sees it.
Page ==
    [statusDiv |-> statusDiv,
     ingredientsSection |-> ingredientsSection, ingredientsList |-> ingredientsList,
     recipesSection |-> recipesSection, recipesList |-> recipesList]

\* The contents of the two list containers.
Lists == [ingredientsList |-> ingredientsList, recipesList |-> recipesList]

SetPage(p) ==
    /\ statusDiv' = p.statusDiv
    /\ ingredientsSection' = p.ingredientsSection
    /\ ingredientsList' = p.ingredientsList
    /\ recipesSection' = p.recipesSection
    /\ recipesList' = p.recipesList

Outstanding(c) == pc[c] \in {"fetch", "json"}

\* Line 18: the status text while a request is in progress; the source ends it
\* with the single character U+2026, written here as three dots.
Analyzing == "Analyzing..."

\* Line 18 left out: the sections are hidden and the status is not set.
hideSectionsOnly(p) ==
    [p EXCEPT !.ingredientsSection = @ \cup {"hidden"},
              !.recipesSection = @ \cup {"hidden"}]

\* Line 20 left out: the recipes section is not hidden.
hideSectionsForgetsRecipes(p) ==
    [p EXCEPT !.statusDiv = Analyzing,
              !.ingredientsSection = @ \cup {"hidden"}]

\* The two lists emptied as well (innerHTML = "") when the sections are hidden.
hideSectionsAndClear(p) ==
    [p EXCEPT !.statusDiv = Analyzing,
              !.ingredientsSection = @ \cup {"hidden"},
              !.ingredientsList = <<>>,
              !.recipesSection = @ \cup {"hidden"},
              !.recipesList = <<>>]

\* Lines 18-20: the status line and the two sections, as the handler leaves
\* them before it calls fetch. classList.add is a set union.
hideSections(p) ==
    [p EXCEPT !.statusDiv = Analyzing,
              !.ingredientsSection = @ \cup {"hidden"},
              !.recipesSection = @ \cup {"hidden"}]

\* An else branch that hides the section when the list is empty.
showIngredientsOrHide(p, ingredients) ==
    IF Len(ingredients) # 0
    THEN [p EXCEPT !.ingredientsSection = @ \ {"hidden"},
                   !.ingredientsList = ingredientsHTML(ingredients)]
    ELSE [p EXCEPT !.ingredientsSection = @ \cup {"hidden"}]

\* innerHTML += instead of innerHTML =: the badges are added to the old ones.
showIngredientsAppending(p, ingredients) ==
    IF Len(ingredients) # 0
    THEN [p EXCEPT !.ingredientsSection = @ \ {"hidden"},
                   !.ingredientsList = @ \o ingredientsHTML(ingredients)]
    ELSE p

\* Lines 31-36: a list of length 0 is falsy and the branch is skipped.
showIngredients(p, ingredients) ==
    IF Len(ingredients) # 0
    THEN [p EXCEPT !.ingredientsSection = @ \ {"hidden"},
                   !.ingredientsList = ingredientsHTML(ingredients)]
    ELSE p

\* Lines 39-42.
showRecipes(p, recipes) ==
    IF Len(recipes) # 0
    THEN [p EXCEPT !.recipesSection = @ \ {"hidden"},
                   !.recipesList = recipesHTML(recipes)]
    ELSE p

\* The status clear moved into the render branches: it runs only when
\* something was shown.
clearStatusWhenShown(p) ==
    IF "hidden" \in p.ingredientsSection /\ "hidden" \in p.recipesSection
    THEN p
    ELSE [p EXCEPT !.statusDiv = ""]

\* Line 44.
clearStatus(p) == [p EXCEPT !.statusDiv = ""]

\* The handler wrapped in try/finally with the status clear in the finally.
resumedClearsOnFailure(p, body) ==
    IF ~body.parses
    THEN [page |-> clearStatus(p), pc |-> "failed"]
    ELSE IF "ingredients" \notin DOMAIN body.data
    THEN [page |-> clearStatus(p), pc |-> "failed"]
    ELSE IF "recipes" \notin DOMAIN body.data
    THEN [page |-> clearStatus(showIngredients(p, body.data.ingredients)),
          pc |-> "failed"]
    ELSE [page |-> clearStatus(showRecipes(showIngredients(p, body.data.ingredients),
                                           body.data.recipes)),
          pc |-> "done"]

\* Both lengths read before anything is rendered: a missing field throws
\* before the first write.
resumedChecksShapeFirst(p, body) ==
    IF ~body.parses
    THEN [page |-> p, pc |-> "failed"]
    ELSE IF "ingredients" \notin DOMAIN body.data \/ "recipes" \notin DOMAIN body.data
    THEN [page |-> p, pc |-> "failed"]
    ELSE [page |-> clearStatus(showRecipes(showIngredients(p, body.data.ingredients),
                                           body.data.recipes)),
          pc |-> "done"]

\* The handler wrapped in try/catch with an empty catch: it returns normally
\* whatever happened.
resumedSwallowsErrors(p, body) ==
    IF ~body.parses
    THEN [page |-> p, pc |-> "done"]
    ELSE IF "ingredients" \notin DOMAIN body.data
    THEN [page |-> p, pc |-> "done"]
    ELSE IF "recipes" \notin DOMAIN body.data
    THEN [page |-> showIngredients(p, body.data.ingredients), pc |-> "done"]
    ELSE [page |-> clearStatus(showRecipes(showIngredients(p, body.data.ingredients),
                                           body.data.recipes)),
          pc |-> "done"]

\* Lines 27-45, run on page p with the body the fetch resolved with: the page
\* the continuation leaves and how it ends. res.json() rejects on a body that
\* does not parse; destructuring a missing field yields undefined, and
\* reading .length of undefined throws, at line 31 or at line 39; nothing
\* catches, so the statements after the throw do not run.
resumed(p, body) ==
    IF ~body.parses
    THEN [page |-> p, pc |-> "failed"]
    ELSE IF "ingredients" \notin DOMAIN body.data
    THEN [page |-> p, pc |-> "failed"]
    ELSE IF "recipes" \notin DOMAIN body.data
    THEN [page |-> showIngredients(p, body.data.ingredients), pc |-> "failed"]
    ELSE [page |-> clearStatus(showRecipes(showIngredients(p, body.data.ingredients),
                                           body.data.recipes)),
          pc |-> "done"]

\* ----------------------------------------------------------------- actions

\* The cycle the next submit with a file starts.
NextCycle == Cardinality({c \in Cycles : pc[c] # "idle"}) + 1

Init ==
    /\ imageInput = <<>>
    /\ statusDiv = ""
    /\ ingredientsSection \in {{}, {"hidden"}}
    /\ ingredientsList = <<>>
    /\ recipesSection \in {{}, {"hidden"}}
    /\ recipesList = <<>>
    /\ requests = <<>>
    /\ pc = [c \in Cycles |-> "idle"]
    /\ res = [c \in Cycles |-> <<>>]
    /\ lastEvent = [op |-> "load", cycle |-> 0]
    /\ overlaps = [c \in Cycles |-> {}]
    /\ before = [c \in Cycles |-> <<>>]
    /\ after = [c \in Cycles |-> <<>>]

\* The user picks a file in the file input, or clears the selection.
SelectFile ==
    /\ \E files \in {<<>>} \cup {<<f>> : f \in Files} : imageInput' = files
    /\ lastEvent' = [op |-> "select", cycle |-> 0]
    /\ UNCHANGED <<statusDiv, ingredientsSection, ingredientsList, recipesSection,
                   recipesList, requests, pc, res, overlaps, before, after>>

\* The missing-file check placed after the status update instead of before it.
SubmitNoFileAfterStatus ==
    /\ Len(imageInput) = 0
    /\ statusDiv' = Analyzing
    /\ lastEvent' = [op |-> "submit", cycle |-> 0]
    /\ UNCHANGED <<imageInput, ingredientsSection, ingredientsList,
                   recipesSection, recipesList, requests, pc, res,
                   overlaps, before, after>>

\* Lines 9-13: submit with no file selected; imageInput.files[0] is undefined.
SubmitNoFile ==
    /\ Len(imageInput) = 0
    /\ lastEvent' = [op |-> "submit", cycle |-> 0]
    /\ UNCHANGED <<imageInput, statusDiv, ingredientsSection, ingredientsList,
                   recipesSection, recipesList, requests, pc, res,
                   overlaps, before, after>>

\* Lines 9-25: submit with a file selected, up to the suspension at await fetch.
SubmitFile ==
    /\ Len(imageInput) # 0
    /\ NextCycle \in Cycles
    /\ LET c == NextCycle
           file == imageInput[1]
       IN  /\ SetPage(hideSections(Page))
           /\ requests' = fetch(requests, formData(file))
           /\ pc' = [pc EXCEPT ![c] = "fetch"]
           /\ lastEvent' = [op |-> "submit", cycle |-> c]
           /\ overlaps' = [overlaps EXCEPT ![c] = {d \in Cycles : Outstanding(d)}]
           /\ before' = [before EXCEPT ![c] = <<Lists>>]
    /\ UNCHANGED <<imageInput, res, after>>

\* The status cleared as soon as the response arrives, before its body is read.
FetchResolveClearsStatus(c) ==
    /\ pc[c] = "fetch"
    /\ \E body \in Bodies : res' = [res EXCEPT ![c] = <<body>>]
    /\ pc' = [pc EXCEPT ![c] = "json"]
    /\ statusDiv' = ""
    /\ lastEvent' = [op |-> "fetched", cycle |-> c]
    /\ UNCHANGED <<imageInput, ingredientsSection, ingredientsList,
                   recipesSection, recipesList, requests, overlaps, before, after>>

\* Line 22 resolves with a response, whatever its HTTP status; the handler
\* calls res.json() and suspends again at line 27.
FetchResolve(c) ==
    /\ pc[c] = "fetch"
    /\ \E body \in Bodies : res' = [res EXCEPT ![c] = <<body>>]
    /\ pc' = [pc EXCEPT ![c] = "json"]
    /\ lastEvent' = [op |-> "fetched", cycle |-> c]
    /\ UNCHANGED <<imageInput, statusDiv, ingredientsSection, ingredientsList,
                   recipesSection, recipesList, requests, overlaps, before, after>>

\* Line 22 rejects (a network failure): the handler throws out of the await.
FetchReject(c) ==
    /\ pc[c] = "fetch"
    /\ pc' = [pc EXCEPT ![c] = "failed"]
    /\ lastEvent' = [op |-> "rejected", cycle |-> c]
    /\ after' = [after EXCEPT ![c] = <<Page>>]
    /\ UNCHANGED <<imageInput, statusDiv, ingredientsSection, ingredientsList,
                   recipesSection, recipesList, requests, res, overlaps, before>>

\* Lines 27-45: res.json() settles and the handler runs to its end, or to
\* the statement that throws, without suspending again.
JsonSettle(c) ==
    /\ pc[c] = "json"
    /\ LET r == resumed(Page, res[c][1])
       IN  /\ SetPage(r.page)
           /\ pc' = [pc EXCEPT ![c] = r.pc]
           /\ after' = [after EXCEPT ![c] = <<r.page>>]
    /\ lastEvent' = [op |-> "settled", cycle |-> c]
    /\ UNCHANGED <<imageInput, requests, res, overlaps, before>>

Next ==
    \/ SelectFile
    \/ SubmitNoFile
    \/ SubmitFile
    \/ \E c \in Cycles : FetchResolve(c)
    \/ \E c \in Cycles : FetchReject(c)
    \/ \E c \in Cycles : JsonSettle(c)

Spec == Init /\ [][Next]_vars

\* The behaviours checked for progress make at most MaxFairSubmits submissions
\* with a file.
FairNext ==
    \/ SelectFile
    \/ SubmitNoFile
    \/ SubmitFile /\ Len(requests) < MaxFairSubmits
    \/ \E c \in Cycles : FetchResolve(c)
    \/ \E c \in Cycles : FetchReject(c)
    \/ \E c \in Cycles : JsonSettle(c)

\* Once res.json() has settled, the event loop runs the continuation.
FairSpec == Init /\ [][FairNext]_vars /\ \A c \in Cycles : WF_vars(JsonSettle(c))

TypeOK ==
    /\ imageInput \in {<<>>} \cup {<<f>> : f \in Files}
    /\ statusDiv \in {"", Analyzing}
    /\ ingredientsSection \subseteq {"hidden"}
    /\ recipesSection \subseteq {"hidden"}
    /\ pc \in [Cycles -> {"idle", "fetch", "json", "done", "failed"}]
    /\ \A c \in Cycles : Len(res[c]) <= 1

\* ------------------------------------------------- vocabulary of the claims

Started(c) == pc[c] # "idle"

Hidden(section) == "hidden" \in section

\* The body cycle c's fetch resolved with.
Body(c) == res[c][1]

HasIngredients(body) == body.parses /\ "ingredients" \in DOMAIN body.data

HasRecipes(body) == body.parses /\ "recipes" \in DOMAIN body.data

WellFormed(body) == HasIngredients(body) /\ HasRecipes(body)

\* The request a submit of `file` has to put on the wire.
AnalyzeRequest(file) ==
    [url |-> "/analyze", method |-> "POST",
     body |-> <<[name |-> "image", value |-> file]>>]

\* The step is a submit event with a file selected / with none selected.
SubmitWithFileStep == lastEvent'.op = "submit" /\ Len(imageInput) # 0

SubmitWithoutFileStep == lastEvent'.op = "submit" /\ Len(imageInput) = 0

\* The step is the continuation of cycle c after res.json() settled.
SettleStep(c) == pc[c] = "json" /\ lastEvent' = [op |-> "settled", cycle |-> c]

\* Cycle c never had another cycle outstanding together with it.
Alone(c) ==
    /\ overlaps[c] = {}
    /\ \A d \in Cycles : c \notin overlaps[d]

\* ------------------------------------------------------------------- C1

\* C1: every submit event with a file selected, whatever the page shows and
\* whether or not an earlier request is outstanding, sets the status to
\* "Analyzing...", hides both sections and appends exactly one POST /analyze
\* request carrying the selected file under the field `image`, in the one
\* step that ends suspended at the fetch; and the number of requests issued
\* always equals the number of submits made with a file.
C1_SubmitIssuesOneRequest ==
    /\ [][SubmitWithFileStep =>
            /\ statusDiv' = Analyzing
            /\ Hidden(ingredientsSection') /\ Hidden(recipesSection')
            /\ requests' = Append(requests, AnalyzeRequest(imageInput[1]))
            /\ \E c \in Cycles : ~Started(c) /\ pc' = [pc EXCEPT ![c] = "fetch"]]_vars
    /\ [](Len(requests) = Cardinality({c \in Cycles : Started(c)}))

\* C1's case: a second submit, with another file, arrived while the first
\* request was outstanding.
C1_Witness ==
    /\ lastEvent = [op |-> "submit", cycle |-> 2]
    /\ overlaps[2] = {1}
    /\ Len(requests) = 2
    /\ requests[1].body # requests[2].body

\* ------------------------------------------------------------------- C2

\* C2: a submit event with no file selected issues no request and leaves the
\* status text, the visibility of both sections, the contents of both lists
\* and every cycle's position exactly as they were.
C2_NoFileSubmitIsNoOp ==
    [][SubmitWithoutFileStep =>
         UNCHANGED <<requests, statusDiv, ingredientsSection, ingredientsList,
                     recipesSection, recipesList, pc, res>>]_vars

\* C2's case: a submit without a file was handled while a request was
\* outstanding and the status read "Analyzing...".
C2_Witness ==
    /\ lastEvent = [op |-> "submit", cycle |-> 0]
    /\ statusDiv = Analyzing
    /\ \E c \in Cycles : Outstanding(c)

\* ------------------------------------------------------------ C3 and C4

\* Cycle d's continuation has run and has written to the page: it ran to its
\* end, or it rendered ingredients before it threw at line 39.
Wrote(d) ==
    /\ pc[d] \in {"done", "failed"}
    /\ res[d] # <<>>
    /\ HasIngredients(Body(d))
    /\ HasRecipes(Body(d)) \/ Len(Body(d).data.ingredients) # 0

\* No response of a cycle that was outstanding together with c has been
\* written to the page.
Undisturbed(c) ==
    \A d \in Cycles \ {c} : (d \in overlaps[c] \/ c \in overlaps[d]) => ~Wrote(d)

\* text is one badge per entry of ingredients, in order, and nothing else.
IsBadges(text, ingredients) ==
    /\ Len(text) = 3 * Len(ingredients)
    /\ \A k \in 1..Len(ingredients) :
         /\ text[3 * k - 2] = "<span class=\"pill\">"
         /\ text[3 * k - 1] = ingredients[k]
         /\ text[3 * k] = "</span>"

\* text, from position `from` on, is one list item per entry of items, in order.
IsItems(text, from, items) ==
    \A k \in 1..Len(items) :
      /\ text[from + 3 * k - 3] = "<li>"
      /\ text[from + 3 * k - 2] = items[k]
      /\ text[from + 3 * k - 1] = "</li>"

CardLen(recipe) == 7 + 3 * Len(recipe.ingredients_used) + 3 * Len(recipe.steps)

\* text is the card of recipe: the title in the heading, the description in
\* the paragraph, the ingredients used in the unordered list and the steps
\* in the ordered list.
IsCard(text, recipe) ==
    LET n == Len(recipe.ingredients_used)
    IN  /\ Len(text) = CardLen(recipe)
        /\ text[1] = "\n    <div class=\"recipe-card\">\n      <h3>"
        /\ text[2] = recipe.title
        /\ text[3] = "</h3>\n      <p>"
        /\ text[4] = recipe.short_description
        /\ text[5] = "</p>\n      <h4>Ingredients used</h4>\n      <ul>\n        "
        /\ IsItems(text, 6, recipe.ingredients_used)
        /\ text[6 + 3 * n] = "\n      </ul>\n      <h4>Steps</h4>\n      <ol>\n        "
        /\ IsItems(text, 7 + 3 * n, recipe.steps)
        /\ text[Len(text)] = "\n      </ol>\n    </div>\n  "

\* text is one card per entry of recipes, in order, and nothing else.
RECURSIVE IsCards(_, _)
IsCards(text, recipes) ==
    IF recipes = <<>> THEN text = <<>>
    ELSE LET n == CardLen(Head(recipes))
         IN  /\ Len(text) >= n
             /\ IsCard(SubSeq(text, 1, n), Head(recipes))
             /\ IsCards(SubSeq(text, n + 1, Len(text)), Tail(recipes))

\* The state is the one cycle c's continuation left.
JustSettled(c) == lastEvent = [op |-> "settled", cycle |-> c]

\* C3 as stated: after any response with an `ingredients` list is processed,
\* the ingredients section is hidden if the list is empty, and visible with
\* one badge per entry in order if it is not.
C3_AsStated ==
    \A c \in Cycles :
      JustSettled(c) /\ HasIngredients(Body(c)) =>
        IF Len(Body(c).data.ingredients) = 0
        THEN Hidden(ingredientsSection)
        ELSE /\ ~Hidden(ingredientsSection)
             /\ IsBadges(ingredientsList, Body(c).data.ingredients)

\* C3, amended: processing a response with an empty `ingredients` list leaves
\* the ingredients section's visibility and list contents as they were, so
\* the section is hidden afterwards unless a response of an overlapping cycle
\* revealed it since this cycle's submit; processing a response with a
\* non-empty list makes the section visible with one badge per entry, in order.
C3_EmptyLeavesIngredientsAsTheyWere ==
    /\ [][\A c \in Cycles :
            SettleStep(c) /\ HasIngredients(Body(c)) =>
              IF Len(Body(c).data.ingredients) = 0
              THEN UNCHANGED <<ingredientsSection, ingredientsList>>
              ELSE /\ ~Hidden(ingredientsSection')
                   /\ IsBadges(ingredientsList', Body(c).data.ingredients)]_vars
    /\ [](\A c \in Cycles :
            /\ JustSettled(c) /\ HasIngredients(Body(c))
            /\ Len(Body(c).data.ingredients) = 0 /\ Undisturbed(c)
            => Hidden(ingredientsSection))

\* C3's case: a response with an empty list was processed after the response
\* of an overlapping cycle had revealed the section with two badges.
C3_Witness ==
    \E c \in Cycles :
      /\ JustSettled(c) /\ HasIngredients(Body(c))
      /\ Len(Body(c).data.ingredients) = 0
      /\ ~Undisturbed(c)
      /\ ~Hidden(ingredientsSection)
      /\ Len(ingredientsList) = 6

\* C4 as stated: after any response with a `recipes` list is processed, the
\* recipes section is hidden if the list is empty, and visible with one card
\* per entry in order if it is not.
C4_AsStated ==
    \A c \in Cycles :
      JustSettled(c) /\ WellFormed(Body(c)) =>
        IF Len(Body(c).data.recipes) = 0
        THEN Hidden(recipesSection)
        ELSE /\ ~Hidden(recipesSection)
             /\ IsCards(recipesList, Body(c).data.recipes)

\* C4, amended: processing a response with an empty `recipes` list leaves the
\* recipes section's visibility and list contents as they were, so the
\* section is hidden afterwards unless a response of an overlapping cycle
\* revealed it since this cycle's submit; processing a response with a
\* non-empty list makes the section visible with one card per entry, in
\* order, each card holding the entry's title, short_description,
\* ingredients_used and steps, in order.
C4_EmptyLeavesRecipesAsTheyWere ==
    /\ [][\A c \in Cycles :
            SettleStep(c) /\ WellFormed(Body(c)) =>
              IF Len(Body(c).data.recipes) = 0
              THEN UNCHANGED <<recipesSection, recipesList>>
              ELSE /\ ~Hidden(recipesSection')
                   /\ IsCards(recipesList', Body(c).data.recipes)]_vars
    /\ [](\A c \in Cycles :
            /\ JustSettled(c) /\ WellFormed(Body(c))
            /\ Len(Body(c).data.recipes) = 0 /\ Undisturbed(c)
            => Hidden(recipesSection))

\* C4's case: a response with two recipes was processed and the list holds
\* their two cards; and a response with no recipes was processed while the
\* cards of an overlapping cycle were showing.
C4_Witness ==
    \E c \in Cycles :
      /\ JustSettled(c) /\ WellFormed(Body(c))
      /\ Len(Body(c).data.recipes) = 0
      /\ ~Undisturbed(c)
      /\ ~Hidden(recipesSection)
      /\ Len(recipesList) = CardLen(Omelette) + CardLen(Pancakes)

\* ------------------------------------------------------------------- C5

\* C5: whenever a response that parses as JSON and carries both `ingredients`
\* and `recipes` is processed, the continuation runs to its end and leaves
\* the status empty, whether or not either list is empty; and every cycle
\* whose response has arrived with such a body eventually clears the status.
C5_WellFormedClearsStatus ==
    /\ [][\A c \in Cycles :
            SettleStep(c) /\ WellFormed(Body(c)) =>
              statusDiv' = "" /\ pc'[c] = "done"]_vars
    /\ \A c \in Cycles :
         (pc[c] = "json" /\ WellFormed(Body(c)))
           ~> (JustSettled(c) /\ pc[c] = "done" /\ statusDiv = "")

\* C5's case: a response with two empty lists was processed, and the status
\* is empty while both sections are hidden.
C5_Witness ==
    \E c \in Cycles :
      /\ JustSettled(c) /\ WellFormed(Body(c))
      /\ Body(c).data.ingredients = <<>> /\ Body(c).data.recipes = <<>>
      /\ Hidden(ingredientsSection) /\ Hidden(recipesSection)
      /\ statusDiv = ""

\* ------------------------------------------------------------------- C6

\* The step is cycle c's request promise rejecting, or its body failing to
\* parse as JSON.
RequestFailsStep(c) ==
    \/ pc[c] = "fetch" /\ lastEvent' = [op |-> "rejected", cycle |-> c]
    \/ SettleStep(c) /\ ~Body(c).parses

\* The state is the one such a failure of cycle c left.
RequestJustFailed(c) ==
    \/ lastEvent = [op |-> "rejected", cycle |-> c]
    \/ JustSettled(c) /\ ~Body(c).parses

\* C6 as stated: when a cycle's request is rejected or its body fails to
\* parse, the cycle ends uncaught with the status at "Analyzing...", both
\* sections hidden and the list contents unchanged.
C6_AsStated ==
    [][\A c \in Cycles :
         RequestFailsStep(c) =>
           /\ pc'[c] = "failed"
           /\ statusDiv' = Analyzing
           /\ Hidden(ingredientsSection') /\ Hidden(recipesSection')
           /\ UNCHANGED <<ingredientsList, recipesList>>]_vars

\* C6, amended: when a cycle's request is rejected or its body fails to
\* parse, the failure is not caught, the cycle never leaves that state, and
\* the handler changes nothing: status, visibility of both sections and list
\* contents stay as they were at the failure. They are "Analyzing..." and
\* hidden unless the response of an overlapping cycle has been written to the
\* page since this cycle's submit.
C6_FailureChangesNothing ==
    /\ [][\A c \in Cycles :
            /\ RequestFailsStep(c) =>
                 /\ pc'[c] = "failed"
                 /\ UNCHANGED <<statusDiv, ingredientsSection, ingredientsList,
                                recipesSection, recipesList>>
            /\ pc[c] = "failed" => pc'[c] = "failed"]_vars
    /\ [](\A c \in Cycles :
            RequestJustFailed(c) /\ Undisturbed(c) =>
              /\ statusDiv = Analyzing
              /\ Hidden(ingredientsSection) /\ Hidden(recipesSection))

\* C6's case: a request was rejected after the response of an overlapping
\* cycle had been rendered; the status is empty and its sections show.
C6_Witness ==
    \E c \in Cycles :
      /\ lastEvent = [op |-> "rejected", cycle |-> c]
      /\ ~Undisturbed(c)
      /\ statusDiv = ""
      /\ ~Hidden(ingredientsSection) /\ ~Hidden(recipesSection)

\* ------------------------------------------------------------------- C7

\* The list contents at cycle d's submit.
ListsAt(d) == before[d][1]

\* Cycles c and d = c + 1 overlapped, no other cycle was outstanding with
\* either, both responses were processed to the end, and the state is the one
\* the second of the two continuations left; `last` is the cycle whose
\* response was processed last.
BothProcessed(c, d, last) ==
    /\ d = c + 1
    /\ overlaps[c] = {} /\ overlaps[d] = {c}
    /\ \A e \in Cycles : e > d => ~Started(e)
    /\ pc[c] = "done" /\ pc[d] = "done"
    /\ last \in {c, d}
    /\ JustSettled(last)

\* C7 as stated: after two overlapping responses, each section is exactly
\* what the last-resolved response alone produces after the submit: visible
\* with its rendering if its list is non-empty, hidden with the contents the
\* list had at the submit if not.
C7_AsStated ==
    \A c, d, last \in Cycles :
      BothProcessed(c, d, last) =>
        LET data == Body(last).data
        IN  /\ IF Len(data.ingredients) # 0
               THEN ~Hidden(ingredientsSection)
                    /\ IsBadges(ingredientsList, data.ingredients)
               ELSE Hidden(ingredientsSection)
                    /\ ingredientsList = ListsAt(d).ingredientsList
            /\ IF Len(data.recipes) # 0
               THEN ~Hidden(recipesSection) /\ IsCards(recipesList, data.recipes)
               ELSE Hidden(recipesSection)
                    /\ recipesList = ListsAt(d).recipesList

\* C7, amended: a submit leaves every outstanding cycle as it is, and after
\* two overlapping responses were processed, in either order, the last one
\* wins section by section only where its list is non-empty: such a section
\* shows exactly its rendering; a section whose list in the last-resolved
\* response is empty keeps what the other response rendered there and stays
\* visible if that response's list was non-empty, and is hidden with the
\* contents it had at the second submit if both lists are empty. The status
\* is empty.
C7_LastWinsWhereNonEmpty ==
    /\ [][SubmitWithFileStep =>
            \A c \in Cycles : Started(c) => pc'[c] = pc[c] /\ res'[c] = res[c]]_vars
    /\ [](\A c, d, last \in Cycles :
            BothProcessed(c, d, last) =>
              LET data == Body(last).data
                  other == Body(IF last = c THEN d ELSE c).data
              IN  /\ statusDiv = ""
                  /\ IF Len(data.ingredients) # 0
                     THEN ~Hidden(ingredientsSection)
                          /\ IsBadges(ingredientsList, data.ingredients)
                     ELSE IF Len(other.ingredients) # 0
                     THEN ~Hidden(ingredientsSection)
                          /\ IsBadges(ingredientsList, other.ingredients)
                     ELSE Hidden(ingredientsSection)
                          /\ ingredientsList = ListsAt(d).ingredientsList
                  /\ IF Len(data.recipes) # 0
                     THEN ~Hidden(recipesSection)
                          /\ IsCards(recipesList, data.recipes)
                     ELSE IF Len(other.recipes) # 0
                     THEN ~Hidden(recipesSection)
                          /\ IsCards(recipesList, other.recipes)
                     ELSE Hidden(recipesSection)
                          /\ recipesList = ListsAt(d).recipesList)

\* C7's case: the first-submitted of two overlapping cycles resolved last,
\* with an empty ingredients list, and the badges of the other response are
\* still showing.
C7_Witness ==
    /\ BothProcessed(1, 2, 1)
    /\ Body(1).data.ingredients = <<>>
    /\ Body(2).data.ingredients # <<>>
    /\ ~Hidden(ingredientsSection)
    /\ IsBadges(ingredientsList, Body(2).data.ingredients)

\* ------------------------------------------------------------------- C8

\* The page cycle c's handler left when it ended.
PageAfter(c) == after[c][1]

\* C8: rendering is idempotent. Two successive cycles, neither overlapping
\* any other, that receive equal well-formed responses leave the same page
\* both times: the same list contents, the same visibility of both sections,
\* the same status. And from every reachable page, for every well-formed
\* response, a cycle that processes it followed by a second cycle that
\* processes it again leaves the page the first one left.
C8_RenderingIsIdempotent ==
    /\ \A c \in Cycles :
         /\ c + 1 \in Cycles
         /\ pc[c] = "done" /\ pc[c + 1] = "done"
         /\ Alone(c) /\ Alone(c + 1)
         /\ Body(c) = Body(c + 1)
         => PageAfter(c) = PageAfter(c + 1)
    /\ \A body \in Bodies :
         WellFormed(body) =>
           LET once == resumed(hideSections(Page), body).page
           IN  resumed(hideSections(once), body).page = once

\* C8's case: two successive cycles processed the same response with two
\* ingredients and two recipes, and the second left the page the first left.
C8_Witness ==
    /\ pc[1] = "done" /\ pc[2] = "done"
    /\ Alone(1) /\ Alone(2)
    /\ Body(1) = Body(2)
    /\ Len(Body(1).data.ingredients) = 2 /\ Len(Body(1).data.recipes) = 2
    /\ JustSettled(2)
    /\ PageAfter(1) = Page

\* ------------------------------------------------------------------- C9

\* The step ends cycle c in failure: its request rejects, its body does not
\* parse, or its parsed response lacks `ingredients` or `recipes`.
FailsStep(c) == Outstanding(c) /\ pc'[c] = "failed"

\* The state is the one the failure of cycle c left.
JustFailed(c) ==
    /\ pc[c] = "failed"
    /\ lastEvent.cycle = c /\ lastEvent.op \in {"rejected", "settled"}

\* Cycle c's response carries a non-empty `ingredients` list and no `recipes`.
IngredientsOnly(c) ==
    /\ res[c] # <<>>
    /\ HasIngredients(Body(c)) /\ ~HasRecipes(Body(c))
    /\ Len(Body(c).data.ingredients) # 0

\* C9 as stated: every failed cycle ends with the status at "Analyzing...",
\* both sections hidden and nothing rendered from its response.
C9_AsStated ==
    [][\A c \in Cycles :
         FailsStep(c) =>
           /\ statusDiv' = Analyzing
           /\ Hidden(ingredientsSection') /\ Hidden(recipesSection')
           /\ UNCHANGED <<ingredientsList, recipesList>>]_vars

\* C9, amended: every failed cycle ends without touching the status, the
\* recipes section or the recipes list. It leaves the ingredients section and
\* list untouched too, except when the response carries a non-empty
\* `ingredients` list and no `recipes`: then the ingredients section is made
\* visible with one badge per entry before the handler throws. Unless the
\* response of an overlapping cycle has been written to the page since the
\* cycle's submit, the status reads "Analyzing..." and every section the
\* cycle did not render is hidden.
C9_FailedCycleOutcome ==
    /\ [][\A c \in Cycles :
            FailsStep(c) =>
              /\ UNCHANGED <<statusDiv, recipesSection, recipesList>>
              /\ IF pc[c] = "json" /\ IngredientsOnly(c)
                 THEN /\ ~Hidden(ingredientsSection')
                      /\ IsBadges(ingredientsList', Body(c).data.ingredients)
                 ELSE UNCHANGED <<ingredientsSection, ingredientsList>>]_vars
    /\ [](\A c \in Cycles :
            JustFailed(c) /\ Undisturbed(c) =>
              /\ statusDiv = Analyzing
              /\ Hidden(recipesSection)
              /\ IF lastEvent.op = "settled" /\ IngredientsOnly(c)
                 THEN ~Hidden(ingredientsSection)
                 ELSE Hidden(ingredientsSection))

\* C9's case: a response with one ingredient and no `recipes` field was
\* processed; its badge shows while the status still reads "Analyzing...".
C9_Witness ==
    \E c \in Cycles :
      /\ JustFailed(c) /\ IngredientsOnly(c) /\ Undisturbed(c)
      /\ statusDiv = Analyzing
      /\ ~Hidden(ingredientsSection)
      /\ IsBadges(ingredientsList, Body(c).data.ingredients)
      /\ Hidden(recipesSection)

\* ------------------------------------------------------------------ C10

\* The state of cycle c in the state machine Idle -> Submitting -> Rendered.
\* A handler that threw has no state of its own: the cycle stays Submitting.
CycleState(c) ==
    CASE pc[c] = "idle" -> "Idle"
      [] pc[c] \in {"fetch", "json", "failed"} -> "Submitting"
      [] pc[c] = "done" -> "Rendered"

\* C10: a cycle changes state only from Idle to Submitting, in a submit step
\* with a file selected, and from Submitting to Rendered, in the step that
\* processes its own arrived, well-formed response to the end; a cycle whose
\* request failed stays where it is, in Submitting; a cycle whose response
\* has not arrived moves only by its own arrival or failure; and a cycle
\* whose response has arrived well-formed eventually reaches Rendered.
C10_CycleStateMachine ==
    /\ [][\A c \in Cycles :
            /\ CycleState(c)' # CycleState(c) =>
                 \/ /\ CycleState(c) = "Idle" /\ CycleState(c)' = "Submitting"
                    /\ SubmitWithFileStep
                    /\ lastEvent'.cycle = c
                 \/ /\ CycleState(c) = "Submitting" /\ CycleState(c)' = "Rendered"
                    /\ SettleStep(c)
                    /\ WellFormed(Body(c))
                    /\ statusDiv' = ""
            /\ pc[c] = "failed" => pc'[c] = "failed"
            /\ pc[c] = "fetch" /\ pc'[c] # "fetch" => lastEvent'.cycle = c]_vars
    /\ \A c \in Cycles :
         (pc[c] = "json" /\ WellFormed(Body(c))) ~> (CycleState(c) = "Rendered")

\* C10's case: a cycle went from Idle through Submitting to Rendered; the
\* state is the one in which its own response has just been processed.
C10_Witness ==
    \E c \in Cycles :
      /\ CycleState(c) = "Rendered"
      /\ JustSettled(c) /\ WellFormed(Body(c))
      /\ statusDiv = ""

\* ------------------------------------------------------------------ C11

\* Cycles c and d were outstanding together at some time.
Overlapped(c, d) == c # d /\ (d \in overlaps[c] \/ c \in overlaps[d])

\* C11 as stated: in every reachable state in which some request is still
\* outstanding, the status reads "Analyzing...".
C11_AsStated ==
    (\E c \in Cycles : Outstanding(c)) => statusDiv = Analyzing

\* C11, amended: no timeout is enforced. A cycle waiting for its response
\* leaves that wait only by its own response or rejection, and the status
\* leaves "Analyzing..." only in the step that processes a well-formed
\* response to its end. So the status reads "Analyzing..." in every state in
\* which a request is outstanding and no cycle that overlapped it has run to
\* its end; once the response of an overlapping cycle has been processed, the
\* status is empty although the request is still outstanding.
C11_AnalyzingUntilSomeResponseIsRendered ==
    /\ [][/\ \A c \in Cycles :
               pc[c] = "fetch" /\ pc'[c] # "fetch" =>
                 /\ lastEvent'.cycle = c
                 /\ lastEvent'.op \in {"fetched", "rejected"}
          /\ statusDiv = Analyzing /\ statusDiv' # Analyzing =>
               \E c \in Cycles :
                 SettleStep(c) /\ WellFormed(Body(c)) /\ statusDiv' = ""]_vars
    /\ [](\A c \in Cycles :
            /\ Outstanding(c)
            /\ \A d \in Cycles : Overlapped(c, d) => pc[d] # "done"
            => statusDiv = Analyzing)

\* C11's case: a request is still waiting for its response after an
\* overlapping cycle ended in failure with its ingredients rendered, and the
\* status reads "Analyzing...".
C11_Witness ==
    \E c, d \in Cycles :
      /\ pc[c] = "fetch"
      /\ Overlapped(c, d) /\ JustFailed(d) /\ IngredientsOnly(d)
      /\ ~Hidden(ingredientsSection)
      /\ statusDiv = Analyzing

\* ------------------------------------------------------------------ C12

\* The step writes to the page.
PageChanges ==
    \/ statusDiv' # statusDiv
    \/ ingredientsSection' # ingredientsSection
    \/ ingredientsList' # ingredientsList
    \/ recipesSection' # recipesSection
    \/ recipesList' # recipesList

\* C12: a cycle writes to the page only in its submit step and in the one
\* step that follows the parse of its body. The arrival of the response,
\* between the two awaits, writes nothing and issues nothing, so the two
\* awaits are one suspension to every observer. The step after the parse
\* ends the handler, so no state has a handler that rendered part of its
\* response and is still to go on: for a well-formed response the step
\* reveals and replaces the ingredients, reveals and replaces the recipes and
\* clears the status, all at once.
C12_RenderingIsOneStep ==
       [][/\ PageChanges =>
               \/ SubmitWithFileStep
               \/ \E c \in Cycles : SettleStep(c) /\ ~Outstanding(c)'
          /\ lastEvent'.op = "fetched" =>
               UNCHANGED <<statusDiv, ingredientsSection, ingredientsList,
                           recipesSection, recipesList, requests>>
          /\ \A c \in Cycles :
               SettleStep(c) /\ WellFormed(Body(c)) =>
                 LET data == Body(c).data
                 IN  /\ pc'[c] = "done"
                     /\ statusDiv' = ""
                     /\ Len(data.ingredients) # 0 =>
                          /\ ~Hidden(ingredientsSection')
                          /\ IsBadges(ingredientsList', data.ingredients)
                     /\ Len(data.recipes) # 0 =>
                          /\ ~Hidden(recipesSection')
                          /\ IsCards(recipesList', data.recipes)]_vars

\* C12's case: a response with ingredients and recipes was processed while
\* another cycle was suspended with its body still to be parsed; both
\* renderings and the status clear are in the state the step left.
C12_Witness ==
    \E c, d \in Cycles :
      /\ JustSettled(c) /\ pc[c] = "done"
      /\ pc[d] = "json"
      /\ Len(Body(c).data.ingredients) = 2 /\ Len(Body(c).data.recipes) = 2
      /\ ~Hidden(ingredientsSection) /\ ~Hidden(recipesSection)
      /\ IsBadges(ingredientsList, Body(c).data.ingredients)
      /\ IsCards(recipesList, Body(c).data.recipes)
      /\ statusDiv = ""

\* ------------------------------------------------------------------ C13

\* C13: when a cycle that never had another cycle outstanding with it has
\* processed its well-formed response, each section is visible exactly if the
\* response's list for it is non-empty, every visible section holds exactly
\* the rendering of that list, and the status is empty. In particular this
\* holds after each cycle when submissions never overlap and every response
\* is well-formed.
C13_NonOverlappingCycleShowsItsResponse ==
    \A c \in Cycles :
      JustSettled(c) /\ Alone(c) /\ WellFormed(Body(c)) =>
        LET data == Body(c).data
        IN  /\ pc[c] = "done"
            /\ statusDiv = ""
            /\ ~Hidden(ingredientsSection) <=> Len(data.ingredients) # 0
            /\ ~Hidden(ingredientsSection) =>
                 IsBadges(ingredientsList, data.ingredients)
            /\ ~Hidden(recipesSection) <=> Len(data.recipes) # 0
            /\ ~Hidden(recipesSection) => IsCards(recipesList, data.recipes)

\* C13's case: two cycles ran one after the other with well-formed
\* responses; the second brought recipes and no ingredients, after the first
\* had shown ingredients and recipes: only the recipes section shows.
C13_Witness ==
    /\ \A c \in Cycles : overlaps[c] = {}
    /\ pc[1] = "done" /\ pc[2] = "done"
    /\ JustSettled(2)
    /\ Len(Body(1).data.ingredients) = 2 /\ Len(Body(1).data.recipes) = 2
    /\ Body(2).data.ingredients = <<>> /\ Len(Body(2).data.recipes) = 1
    /\ Hidden(ingredientsSection) /\ ~Hidden(recipesSection)
    /\ IsCards(recipesList, Body(2).data.recipes)
    /\ statusDiv = ""

\* ------------------------------------------------------------------ C14

\* C14: list contents are only ever replaced, never cleared. A submit leaves
\* the contents of both lists as they are; processing a response whose
\* `ingredients` (respectively `recipes`) list is empty leaves that list's
\* contents and that section's visibility as they are; and a list changes
\* only in the step that processes a response with a non-empty list for it,
\* to the rendering of that list, which is not empty.
C14_ListsAreReplacedNeverCleared ==
    [][/\ lastEvent'.op = "submit" => UNCHANGED <<ingredientsList, recipesList>>
       /\ \A c \in Cycles :
            /\ SettleStep(c) /\ HasIngredients(Body(c))
               /\ Len(Body(c).data.ingredients) = 0
               => UNCHANGED <<ingredientsSection, ingredientsList>>
            /\ SettleStep(c) /\ WellFormed(Body(c))
               /\ Len(Body(c).data.recipes) = 0
               => UNCHANGED <<recipesSection, recipesList>>
       /\ ingredientsList' # ingredientsList =>
            \E c \in Cycles :
              /\ SettleStep(c) /\ HasIngredients(Body(c))
              /\ Len(Body(c).data.ingredients) # 0
              /\ IsBadges(ingredientsList', Body(c).data.ingredients)
              /\ ingredientsList' # <<>>
       /\ recipesList' # recipesList =>
            \E c \in Cycles :
              /\ SettleStep(c) /\ WellFormed(Body(c))
              /\ Len(Body(c).data.recipes) # 0
              /\ IsCards(recipesList', Body(c).data.recipes)
              /\ recipesList' # <<>>]_vars

\* C14's case: a later cycle's response with two empty lists was processed;
\* both sections are hidden and the lists still hold the badges and the
\* cards of the earlier cycle.
C14_Witness ==
    /\ pc[1] = "done" /\ pc[2] = "done"
    /\ Alone(1) /\ Alone(2)
    /\ JustSettled(2)
    /\ Body(2).data.ingredients = <<>> /\ Body(2).data.recipes = <<>>
    /\ Len(Body(1).data.ingredients) = 2 /\ Len(Body(1).data.recipes) = 2
    /\ Hidden(ingredientsSection) /\ Hidden(recipesSection)
    /\ IsBadges(ingredientsList, Body(1).data.ingredients)
    /\ IsCards(recipesList, Body(1).data.recipes)

====
